---------------------------- MODULE Spec2Model ----------------------------
(***************************************************************************)
(* Field extraction and normalisation logic of the two Streamlit scripts   *)
(* frenchcarte.py (French national identity card) and indian_passport.py   *)
(* (passport).  Python strings are modelled as sequences of one-character  *)
(* strings, dictionaries as functions from labels to such sequences.       *)
(***************************************************************************)
EXTENDS Integers, Sequences, FiniteSets, TLC

VARIABLES
    pc,             \* position of the script / of the function under study
    date_str,       \* argument of convert_date
    code,           \* argument of get_country_fullname
    raw,            \* mrz.to_dict() of read_mrz(image), or None
    result,         \* outcome of the function call: a value or a raised exception
    uploaded_file,  \* the uploaded image: what the OCR engine and the MRZ decoder make of it
    ocr_text,       \* frenchcarte.py ocr_text / indian_passport.py raw_text
    mrz_info,       \* FieldSet of extract_mrz_info
    ocr_info,       \* frenchcarte.py ocr_info / indian_passport.py extracted_info
    taille,         \* frenchcarte.py taille (second height pass)
    final_info      \* frenchcarte.py final_info

vars == <<pc, date_str, code, raw, result, uploaded_file, ocr_text, mrz_info,
          ocr_info, taille, final_info>>

(***************************************************************************)
(* Bounds of the model.                                                    *)
(***************************************************************************)
MaxPad == 1      \* leading / trailing whitespace characters around a date
MaxShort == 2    \* length of the free-form strings handed to convert_date
MaxCode == 3     \* length of a country code
MaxName == 3     \* length of the raw MRZ surname and names fields
MaxSegs == 2     \* number of vocabulary segments making up an OCR text

(***************************************************************************)
(* Characters and Python's str methods.                                    *)
(***************************************************************************)
None == [kind |-> "None"]

Digits == {"0", "1", "2", "3", "4", "5", "6", "7", "8", "9"}

DigitSeq == <<"0", "1", "2", "3", "4", "5", "6", "7", "8", "9">>

LowerLetters == <<"a", "b", "c", "d", "e", "f", "g", "h", "i", "j", "k", "l", "m", "n", "o", "p", "q", "r", "s", "t", "u", "v", "w", "x", "y", "z", "é", "è", "à", "ù", "ç">>

UpperLetters == <<"A", "B", "C", "D", "E", "F", "G", "H", "I", "J", "K", "L", "M", "N", "O", "P", "Q", "R", "S", "T", "U", "V", "W", "X", "Y", "Z", "É", "È", "À", "Ù", "Ç">>

Range(s) == {s[i] : i \in DOMAIN s}

Lowers == Range(LowerLetters)

Uppers == Range(UpperLetters)

Letters == Lowers \cup Uppers

\* Python's str.isspace() characters that occur in the inputs
Whitespace == {" ", "\n", "\t"}

IndexIn(s, c) == CHOOSE i \in DOMAIN s : s[i] = c

\* str.upper() / str.lower() of one character
UpperChar(c) == IF c \in Lowers THEN UpperLetters[IndexIn(LowerLetters, c)] ELSE c

LowerChar(c) == IF c \in Uppers THEN LowerLetters[IndexIn(UpperLetters, c)] ELSE c

\* str.upper()
Upper(s) == [i \in DOMAIN s |-> UpperChar(s[i])]

\* str.lower()
Lower(s) == [i \in DOMAIN s |-> LowerChar(s[i])]

\* str.title(): a cased character is upper-cased when the character before it
\* is not cased, lower-cased otherwise
Title(s) ==
    [i \in DOMAIN s |->
        IF s[i] \notin Letters THEN s[i]
        ELSE IF i > 1 /\ s[i - 1] \in Letters THEN LowerChar(s[i])
        ELSE UpperChar(s[i])]

RECURSIVE LStrip(_)
LStrip(s) == IF s # <<>> /\ Head(s) \in Whitespace THEN LStrip(Tail(s)) ELSE s

RECURSIVE RStrip(_)
RStrip(s) ==
    IF s # <<>> /\ s[Len(s)] \in Whitespace THEN RStrip(SubSeq(s, 1, Len(s) - 1)) ELSE s

\* str.strip()
Strip(s) == RStrip(LStrip(s))

\* s.startswith(old) at position i
StartsAt(s, i, old) ==
    /\ i + Len(old) - 1 <= Len(s)
    /\ \A k \in 1..Len(old) : s[i + k - 1] = old[k]

\* old in s
Contains(s, old) == \E i \in 1..(Len(s) + 1) : StartsAt(s, i, old)

\* str.replace(old, new): the non-overlapping occurrences of old, left to
\* right; an empty old matches before every character and at the end
RECURSIVE ReplaceFrom(_, _, _, _)
ReplaceFrom(s, i, old, new) ==
    IF i > Len(s) THEN (IF old = <<>> THEN new ELSE <<>>)
    ELSE IF old = <<>> THEN new \o <<s[i]>> \o ReplaceFrom(s, i + 1, old, new)
    ELSE IF StartsAt(s, i, old) THEN new \o ReplaceFrom(s, i + Len(old), old, new)
    ELSE <<s[i]>> \o ReplaceFrom(s, i + 1, old, new)

Replace(s, old, new) == ReplaceFrom(s, 1, old, new)

\* str(n) of an integer
RECURSIVE NatToStr(_)
NatToStr(n) ==
    IF n < 10 THEN <<DigitSeq[n + 1]>>
    ELSE NatToStr(n \div 10) \o <<DigitSeq[(n % 10) + 1]>>

IntToStr(n) == IF n < 0 THEN <<"-">> \o NatToStr(-n) ELSE NatToStr(n)

DigitVal(c) == IndexIn(DigitSeq, c) - 1

RECURSIVE DigitsVal(_)
DigitsVal(s) ==
    IF s = <<>> THEN 0
    ELSE 10 * DigitsVal(SubSeq(s, 1, Len(s) - 1)) + DigitVal(s[Len(s)])

\* int(s): surrounding whitespace, one optional sign, then digits in which
\* single underscores may separate digits; anything else raises ValueError
IntLiteralOk(b) ==
    /\ b # <<>>
    /\ Range(b) \subseteq Digits \cup {"_"}
    /\ b[1] # "_" /\ b[Len(b)] # "_"
    /\ \A i \in 1..(Len(b) - 1) : ~(b[i] = "_" /\ b[i + 1] = "_")

StripUnderscores(b) == SelectSeq(b, LAMBDA c : c # "_")

PyInt(s) ==
    LET t == Strip(s)
        signed == t # <<>> /\ t[1] \in {"+", "-"}
        b == IF signed THEN Tail(t) ELSE t
    IN  IF IntLiteralOk(b)
        THEN [kind |-> "value",
              val |-> IF signed /\ t[1] = "-" THEN -DigitsVal(StripUnderscores(b))
                      ELSE DigitsVal(StripUnderscores(b))]
        ELSE [kind |-> "raise", val |-> "ValueError"]

Value(v) == [kind |-> "value", val |-> v]

Raise(e) == [kind |-> "raise", val |-> e]

(***************************************************************************)
(* Date Normalizer.                                                        *)
(***************************************************************************)
\* re.fullmatch(r'\d{6}', s)
IsSixDigits(s) == Len(s) = 6 /\ Range(s) \subseteq Digits

DateSeparators == {".", "/", "-"}

\* re.fullmatch(r'(\d{2})[./-](\d{2})[./-](\d{4})', s)
IsDelimitedDate(s) ==
    /\ Len(s) = 10
    /\ \A i \in {1, 2, 4, 5, 7, 8, 9, 10} : s[i] \in Digits
    /\ s[3] \in DateSeparators
    /\ s[6] \in DateSeparators

\* the threshold of "1900 + yy if yy > 30 else 2000 + yy"
CenturyThreshold == 30

\* the YYMMDD branch with the comparison slipped to yy >= 30
FrMrzDateGe(s) ==
    LET yy == PyInt(SubSeq(s, 1, 2))
    IN  IF yy.kind = "raise" THEN Raise(yy.val)
        ELSE Value(SubSeq(s, 5, 6) \o <<"/">> \o SubSeq(s, 3, 4) \o <<"/">>
                   \o IntToStr(IF yy.val >= CenturyThreshold THEN 1900 + yy.val
                               ELSE 2000 + yy.val))

\* frenchcarte.convert_date, the YYMMDD branch
FrMrzDate(s) ==
    LET yy == PyInt(SubSeq(s, 1, 2))
        mm == SubSeq(s, 3, 4)
        dd == SubSeq(s, 5, 6)
    IN  IF yy.kind = "raise" THEN Raise(yy.val)
        ELSE LET year == IF yy.val > CenturyThreshold THEN 1900 + yy.val
                         ELSE 2000 + yy.val
             IN  Value(dd \o <<"/">> \o mm \o <<"/">> \o IntToStr(year))

\* frenchcarte.convert_date, the dd.mm.yyyy branch: groups 1, 2, 3 joined by "/"
FrDelimitedDate(s) ==
    Value(SubSeq(s, 1, 2) \o <<"/">> \o SubSeq(s, 4, 5) \o <<"/">> \o SubSeq(s, 7, 10))

\* convert_date whose fallback returns the argument as it was passed
fr_convert_date_nostrip(s0) ==
    LET s == Strip(s0)
    IN  IF IsSixDigits(s) THEN FrMrzDate(s)
        ELSE IF IsDelimitedDate(s) THEN FrDelimitedDate(s)
        ELSE Value(s0)

\* frenchcarte.convert_date
fr_convert_date(s0) ==
    LET s == Strip(s0)
    IN  IF IsSixDigits(s) THEN FrMrzDate(s)
        ELSE IF IsDelimitedDate(s) THEN FrDelimitedDate(s)
        ELSE Value(s)

\* indian_passport.convert_date
in_convert_date(ymd) ==
    IF Len(ymd) # 6 THEN Value(ymd)
    ELSE LET yy == PyInt(SubSeq(ymd, 1, 2))
             mm == SubSeq(ymd, 3, 4)
             dd == SubSeq(ymd, 5, 6)
         IN  IF yy.kind = "raise" THEN Raise(yy.val)
             ELSE LET year == IF yy.val > CenturyThreshold THEN 1900 + yy.val
                              ELSE 2000 + yy.val
                  IN  Value(dd \o <<"/">> \o mm \o <<"/">> \o IntToStr(year))

(***************************************************************************)
(* Country Code Expander.                                                  *)
(***************************************************************************)
\* the alpha-3 codes of the country reference table that the model knows
Alpha3 == {<<"F", "R", "A">>, <<"I", "N", "D">>, <<"D", "E", "U">>}

CountryName(c) ==
    CASE c = <<"F", "R", "A">> -> <<"F", "r", "a", "n", "c", "e">>
      [] c = <<"I", "N", "D">> -> <<"I", "n", "d", "i", "a">>
      [] c = <<"D", "E", "U">> -> <<"G", "e", "r", "m", "a", "n", "y">>

\* pycountry.countries.get(alpha_3=c): the country, or nothing; depending on
\* the library's version an unknown code yields None or raises
CountriesGet(c) ==
    IF c \in Alpha3 THEN {[kind |-> "found", name |-> CountryName(c)]}
    ELSE {[kind |-> "none"], [kind |-> "raise"]}

\* the try block of get_country_fullname, o being the outcome of the lookup
CountryTry(c, o) ==
    IF o.kind = "raise" THEN Raise("KeyError")
    ELSE IF o.kind = "none" THEN Raise("AttributeError")
    ELSE Value(o.name \o <<" ", "(">> \o Upper(c) \o <<")">>)

\* get_country_fullname whose handler catches the lookup's KeyError only
fr_get_country_fullname_keyerror(c, o) ==
    LET r == CountryTry(c, o)
    IN  IF r.kind = "raise" /\ r.val = "KeyError" THEN Value(c) ELSE r

\* frenchcarte.get_country_fullname (except Exception)
fr_get_country_fullname(c, o) ==
    LET r == CountryTry(c, o)
    IN  IF r.kind = "raise" THEN Value(c) ELSE r

\* indian_passport.get_country_fullname (bare except)
in_get_country_fullname(c, o) ==
    LET r == CountryTry(c, o)
    IN  IF r.kind = "raise" THEN Value(c) ELSE r

(***************************************************************************)
(* MRZ Field Mapper.                                                       *)
(***************************************************************************)
EmptyDict == [l \in {} |-> <<>>]

NonPrecise == <<"N", "o", "n", " ", "p", "r", "é", "c", "i", "s", "é">>

\* raw.get(key, "").replace("<", " ").strip().title()
CleanName(s) == Title(Strip(Replace(s, <<"<">>, <<" ">>)))

\* the first-name derivation without the fall-back to names
FrPrenomNoFallback(surname, names) ==
    IF names # <<>>
    THEN IF surname # <<>> /\ Contains(names, surname)
         THEN Strip(Replace(names, surname, <<>>))
         ELSE names
    ELSE NonPrecise

\* frenchcarte.extract_mrz_info: "Determine first name (Prénom)"
FrPrenom(surname, names) ==
    IF names # <<>>
    THEN IF surname # <<>> /\ Contains(names, surname)
         THEN LET prenom == Strip(Replace(names, surname, <<>>))
              IN  IF prenom = <<>> THEN names ELSE prenom
         ELSE names
    ELSE NonPrecise

\* frenchcarte.extract_mrz_info; oc and on are the outcomes of the two
\* country look-ups
fr_extract_mrz_info(mrz, oc, on) ==
    IF mrz = None THEN EmptyDict
    ELSE LET surname == CleanName(mrz.surname)
             names == CleanName(mrz.names)
             prenom == FrPrenom(surname, names)
             dob_raw == Strip(Replace(mrz.date_of_birth, <<"<">>, <<>>))
             exp_raw == Strip(Replace(mrz.expiration_date, <<"<">>, <<>>))
             sex0 == Strip(Replace(mrz.sex, <<"<">>, <<>>))
             sexe == IF sex0 = <<>> THEN NonPrecise ELSE sex0
         IN  ("MRZ brut" :> mrz.mrz_text)
             @@ ("Pays de délivrance" :> fr_get_country_fullname(mrz.country, oc).val)
             @@ ("Carte nationale d'identité" :> Replace(mrz.number, <<"<">>, <<>>))
             @@ ("Nom de famille" :> surname)
             @@ ("Prénom" :> prenom)
             @@ ("Nationalité" :> fr_get_country_fullname(mrz.nationality, on).val)
             @@ ("Né(e) le" :> fr_convert_date(dob_raw).val)
             @@ ("Date d'expiration" :> fr_convert_date(exp_raw).val)
             @@ ("Sexe" :> sexe)

\* indian_passport.extract_mrz_info: the FieldSet, or the exception that
\* convert_date lets through
in_extract_mrz_info(mrz, oc, on) ==
    IF mrz = None THEN Value(EmptyDict)
    ELSE LET surname == CleanName(mrz.surname)
             names == CleanName(mrz.names)
             first_name == Strip(Replace(names, surname, <<>>))
             dob == in_convert_date(mrz.date_of_birth)
             exp == in_convert_date(mrz.expiration_date)
         IN  IF dob.kind = "raise" THEN dob
             ELSE IF exp.kind = "raise" THEN exp
             ELSE Value(
                 ("Raw MRZ" :> mrz.mrz_text)
                 @@ ("Country Code (Issued By)" :> in_get_country_fullname(mrz.country, oc).val)
                 @@ ("Passport Number" :> Replace(mrz.number, <<"<">>, <<>>))
                 @@ ("Last Name" :> surname)
                 @@ ("First Name" :> first_name)
                 @@ ("Nationality" :> in_get_country_fullname(mrz.nationality, on).val)
                 @@ ("Date of Birth" :> dob.val)
                 @@ ("Expiration Date" :> exp.val)
                 @@ ("Sex" :> mrz.sex))

(***************************************************************************)
(* Regular expressions: re.search finds the leftmost position at which     *)
(* the pattern matches; at a position the quantifiers are greedy and give  *)
(* back only where the rest of the pattern could then match.               *)
(***************************************************************************)
NoMatch == [found |-> FALSE, group |-> <<>>]

\* the match whose group(1) is t[a .. b-1]
Group(t, a, b) == [found |-> TRUE, group |-> SubSeq(t, a, b - 1)]

\* the character at position i, "" past the end of the text
At(t, i) == IF i >= 1 /\ i <= Len(t) THEN t[i] ELSE ""

\* X* for a character class X, greedy: the position after the run
RECURSIVE SkipSet(_, _, _)
SkipSet(t, i, X) == IF At(t, i) \in X THEN SkipSet(t, i + 1, X) ELSE i

\* X? for a character class X
SkipOpt(t, i, X) == IF At(t, i) \in X THEN i + 1 ELSE i

\* a literal, case-sensitive
LitAt(t, i, lit) == \A k \in 1..Len(lit) : At(t, i + k - 1) = lit[k]

\* a literal under re.IGNORECASE
LitAtI(t, i, lit) ==
    \A k \in 1..Len(lit) :
        At(t, i + k - 1) # "" /\ LowerChar(At(t, i + k - 1)) = LowerChar(lit[k])

AsciiLower == {LowerLetters[k] : k \in 1..26}

AsciiUpper == {UpperLetters[k] : k \in 1..26}

\* [A-Z] under re.IGNORECASE
AsciiLetters == AsciiLower \cup AsciiUpper

\* \w
WordChars == Letters \cup Digits \cup {"_"}

\* \s*[:]?[\s]* : the position after the separator between label and value
SkipSep(t, i) ==
    SkipSet(t, SkipOpt(t, SkipSet(t, i, Whitespace), {":"}), Whitespace)

\* a class run X+ captured from position p
Run(t, p, X) ==
    LET q == SkipSet(t, p, X) IN IF q > p THEN Group(t, p, q) ELSE NoMatch

(***************************************************************************)
(* Text Field Extractor, ID-card variant.                                  *)
(***************************************************************************)
\* (?:Taille|T\.|taille)[\s:]*([\d.,]+) at position i, not re.IGNORECASE
TailleAt(t, i) ==
    LET p == IF LitAt(t, i, <<"T", "a", "i", "l", "l", "e">>) THEN i + 6
             ELSE IF LitAt(t, i, <<"T", ".">>) THEN i + 2
             ELSE IF LitAt(t, i, <<"t", "a", "i", "l", "l", "e">>) THEN i + 6
             ELSE 0
    IN  IF p = 0 THEN NoMatch
        ELSE Run(t, SkipSet(t, p, Whitespace \cup {":"}), Digits \cup {".", ","})

RECURSIVE TailleSearch(_, _)
TailleSearch(t, i) ==
    IF i > Len(t) THEN NoMatch
    ELSE IF TailleAt(t, i).found THEN TailleAt(t, i)
    ELSE TailleSearch(t, i + 1)

\* frenchcarte.extract_taille
extract_taille(ocr) ==
    LET match == TailleSearch(ocr, 1)
    IN  IF match.found THEN Strip(Replace(match.group, <<",">>, <<".">>))
        ELSE NonPrecise

\* CARTE NATIONALE D'?IDENTITE(?:\s*Ne\s*[:]?[\s]*)(\d+) at position i
IdAt(t, i) ==
    LET p1 == i + 17
        p2 == SkipOpt(t, p1, {"'"})
        p3 == SkipSet(t, p2 + 8, Whitespace)
    IN  IF /\ LitAtI(t, i, <<"C", "A", "R", "T", "E", " ", "N", "A", "T", "I", "O", "N", "A", "L", "E", " ", "D">>)
           /\ LitAtI(t, p2, <<"I", "D", "E", "N", "T", "I", "T", "E">>)
           /\ LitAtI(t, p3, <<"N", "e">>)
        THEN Run(t, SkipSep(t, p3 + 2), Digits)
        ELSE NoMatch

RECURSIVE IdSearch(_, _)
IdSearch(t, i) ==
    IF i > Len(t) THEN NoMatch
    ELSE IF IdAt(t, i).found THEN IdAt(t, i)
    ELSE IdSearch(t, i + 1)

\* Nationalité\s*[:]?[\s]*([A-Za-zéèàùçÉÈÀÙÇ]+) at position i
NatAt(t, i) ==
    IF LitAtI(t, i, <<"N", "a", "t", "i", "o", "n", "a", "l", "i", "t", "é">>) THEN Run(t, SkipSep(t, i + 11), Letters)
    ELSE NoMatch

RECURSIVE NatSearch(_, _)
NatSearch(t, i) ==
    IF i > Len(t) THEN NoMatch
    ELSE IF NatAt(t, i).found THEN NatAt(t, i)
    ELSE NatSearch(t, i + 1)

\* Nom\s*[:]?[\s]*([A-Z]+) at position i
NomLabelAt(t, i) ==
    IF LitAtI(t, i, <<"N", "o", "m">>) THEN Run(t, SkipSep(t, i + 3), AsciiLetters)
    ELSE NoMatch

\* (?:BC\s*)?Nom\s*[:]?[\s]*([A-Z]+) at position i: first with the BC
\* prefix, then without it
NomAt(t, i) ==
    LET withBC == IF LitAtI(t, i, <<"B", "C">>)
                  THEN NomLabelAt(t, SkipSet(t, i + 2, Whitespace))
                  ELSE NoMatch
    IN  IF withBC.found THEN withBC ELSE NomLabelAt(t, i)

RECURSIVE NomSearch(_, _)
NomSearch(t, i) ==
    IF i > Len(t) THEN NoMatch
    ELSE IF NomAt(t, i).found THEN NomAt(t, i)
    ELSE NomSearch(t, i + 1)

\* Prénom[\(\{]?[sS]?[}\)]?\s*[:]?[\s]*([A-Z]+) at position i: the optional
\* s is first taken and, if the rest then fails, given back
PrenomAt(t, i) ==
    LET p2 == SkipOpt(t, i + 6, {"(", "{"})
        withS == IF At(t, p2) \in {"s", "S"}
                 THEN Run(t, SkipSep(t, SkipOpt(t, p2 + 1, {"}", ")"})), AsciiLetters)
                 ELSE NoMatch
    IN  IF ~LitAtI(t, i, <<"P", "r", "é", "n", "o", "m">>) THEN NoMatch
        ELSE IF withS.found THEN withS
        ELSE Run(t, SkipSep(t, SkipOpt(t, p2, {"}", ")"})), AsciiLetters)

RECURSIVE PrenomSearch(_, _)
PrenomSearch(t, i) ==
    IF i > Len(t) THEN NoMatch
    ELSE IF PrenomAt(t, i).found THEN PrenomAt(t, i)
    ELSE PrenomSearch(t, i + 1)

\* Sexe\s*[:]?[\s]*([FM]) at position i
SexeAt(t, i) ==
    LET p == SkipSep(t, i + 4)
    IN  IF LitAtI(t, i, <<"S", "e", "x", "e">>) /\ At(t, p) \in {"F", "M", "f", "m"}
        THEN Group(t, p, p + 1)
        ELSE NoMatch

RECURSIVE SexeSearch(_, _)
SexeSearch(t, i) ==
    IF i > Len(t) THEN NoMatch
    ELSE IF SexeAt(t, i).found THEN SexeAt(t, i)
    ELSE SexeSearch(t, i + 1)

\* ([\d]{2}[./-][\d]{2}[./-][\d]{4}) at position p
DateAt(t, p) ==
    IF p + 9 <= Len(t) /\ IsDelimitedDate(SubSeq(t, p, p + 9))
    THEN Group(t, p, p + 10)
    ELSE NoMatch

\* [éeÉÈ] under re.IGNORECASE
DobE == {"é", "e", "É", "È", "E", "è"}

\* [\(\{]?e[\)\}]?\s*(?:le|ie)?\s*[:]?\s*(date) at position p
DobTailAt(t, p) ==
    LET p2 == SkipOpt(t, p, {"(", "{"})
        p3 == SkipOpt(t, p2 + 1, {")", "}"})
        p4 == SkipSet(t, p3, Whitespace)
        p5 == IF LitAtI(t, p4, <<"l", "e">>) \/ LitAtI(t, p4, <<"i", "e">>) THEN p4 + 2 ELSE p4
    IN  IF At(t, p2) \in {"e", "E"} THEN DateAt(t, SkipSep(t, p5)) ELSE NoMatch

\* N[éeÉÈ]*... with the star taking k characters, k counted down from the
\* longest run until the rest of the pattern matches
RECURSIVE DobStar(_, _, _)
DobStar(t, i, k) ==
    IF DobTailAt(t, i + 1 + k).found THEN DobTailAt(t, i + 1 + k)
    ELSE IF k = 0 THEN NoMatch
    ELSE DobStar(t, i, k - 1)

\* N[éeÉÈ]*[\(\{]?e[\)\}]?\s*(?:le|ie)?\s*[:]?\s*([\d]{2}[./-][\d]{2}[./-][\d]{4})
DobAt(t, i) ==
    IF At(t, i) \in {"N", "n"}
    THEN DobStar(t, i, SkipSet(t, i + 1, DobE) - (i + 1))
    ELSE NoMatch

RECURSIVE DobSearch(_, _)
DobSearch(t, i) ==
    IF i > Len(t) THEN NoMatch
    ELSE IF DobAt(t, i).found THEN DobAt(t, i)
    ELSE DobSearch(t, i + 1)

\* info[label] = value when the pattern matched
Entry(label, m, value) == IF m.found THEN label :> value ELSE EmptyDict

\* frenchcarte.extract_info_from_ocr_text
extract_info_from_ocr_text(ocr) ==
    LET id_match == IdSearch(ocr, 1)
        nat_match == NatSearch(ocr, 1)
        nom_match == NomSearch(ocr, 1)
        prenom_match == PrenomSearch(ocr, 1)
        sexe_match == SexeSearch(ocr, 1)
        dob_match == DobSearch(ocr, 1)
    IN  Entry("Carte nationale d'identité", id_match, id_match.group)
        @@ Entry("Nationalité", nat_match, Title(nat_match.group))
        @@ Entry("Nom de famille", nom_match, Title(nom_match.group))
        @@ Entry("Prénom", prenom_match, Title(prenom_match.group))
        @@ Entry("Sexe", sexe_match, Upper(sexe_match.group))
        @@ Entry("Né(e) le", dob_match, fr_convert_date(dob_match.group).val)
        @@ ("Taille" :> extract_taille(ocr))

(***************************************************************************)
(* Text Field Extractor, passport variant.                                 *)
(***************************************************************************)
\* P<\w+<<([A-Z<]+) at position i
NameAt(t, i) ==
    LET p == SkipSet(t, i + 2, WordChars)
    IN  IF LitAt(t, i, <<"P", "<">>) /\ p > i + 2 /\ LitAt(t, p, <<"<", "<">>)
        THEN Run(t, p + 2, AsciiUpper \cup {"<"})
        ELSE NoMatch

RECURSIVE NameSearch(_, _)
NameSearch(t, i) ==
    IF i > Len(t) THEN NoMatch
    ELSE IF NameAt(t, i).found THEN NameAt(t, i)
    ELSE NameSearch(t, i + 1)

\* \b at position i
Boundary(t, i) == (At(t, i - 1) \in WordChars) # (At(t, i) \in WordChars)

\* \b([A-Z0-9]{8,9})\b at position i: nine characters first, then eight
NumberAt(t, i) ==
    LET q == SkipSet(t, i, AsciiUpper \cup Digits)
    IN  IF ~Boundary(t, i) THEN NoMatch
        ELSE IF q >= i + 9 /\ Boundary(t, i + 9) THEN Group(t, i, i + 9)
        ELSE IF q >= i + 8 /\ Boundary(t, i + 8) THEN Group(t, i, i + 8)
        ELSE NoMatch

RECURSIVE NumberSearch(_, _)
NumberSearch(t, i) ==
    IF i > Len(t) THEN NoMatch
    ELSE IF NumberAt(t, i).found THEN NumberAt(t, i)
    ELSE NumberSearch(t, i + 1)

\* indian_passport.extract_text_info, after the OCR engine returned text
extract_text_info(text) ==
    LET name_match == NameSearch(text, 1)
        passport_number == NumberSearch(text, 1)
    IN  Entry("Name", name_match, CleanName(name_match.group))
        @@ Entry("Passport Number", passport_number, passport_number.group)

(***************************************************************************)
(* Field Merger of frenchcarte.py.                                         *)
(***************************************************************************)
\* dict.update: the entries of e written over those of d
DictUpdate(d, e) == e @@ d

\* the merge with the MRZ entries written last
final_info_mrz_last(m, o, ta) ==
    DictUpdate(DictUpdate(DictUpdate(EmptyDict, o), m), "Taille" :> ta)

\* frenchcarte.py: final_info = {}; update(mrz_info) if mrz_info;
\* update(ocr_info); final_info["Taille"] = taille
merge_final_info(m, o, ta) ==
    LET seeded == IF m # EmptyDict THEN DictUpdate(EmptyDict, m) ELSE EmptyDict
    IN  DictUpdate(DictUpdate(seeded, o), "Taille" :> ta)

(***************************************************************************)
(* Inputs.                                                                 *)
(***************************************************************************)
\* all sequences over the characters X of length at most n
RECURSIVE SeqsUpTo(_, _)
SeqsUpTo(X, n) ==
    IF n = 0 THEN {<<>>}
    ELSE LET shorter == SeqsUpTo(X, n - 1)
         IN  shorter \cup {s \o <<c>> : s \in shorter, c \in X}

\* all concatenations of at most n segments of the vocabulary V
RECURSIVE Texts(_, _)
Texts(V, n) ==
    IF n = 0 THEN {<<>>}
    ELSE LET shorter == Texts(V, n - 1)
         IN  shorter \cup {s \o v : s \in shorter, v \in V}

Pads == {[i \in 1..k |-> " "] : k \in 0..MaxPad}

YYChars == Digits \cup {"<", " ", "-", "A"}

SixBodies ==
    {<<a, b>> \o mm \o dd :
        a \in YYChars, b \in YYChars,
        mm \in {<<"0", "1">>, <<"1", "2">>, <<"<", "1">>}, dd \in {<<"0", "1">>, <<"3", "1">>}}

DelimBodies ==
    {dd \o <<s1>> \o <<"0", "7">> \o <<s2>> \o yyyy :
        s1 \in {".", "/", "-", "x"}, s2 \in {".", "/", "-", "x"},
        dd \in {<<"1", "5">>, <<"1", "A">>}, yyyy \in {<<"1", "9", "9", "0">>, <<"9", "9", "0">>}}

ShortBodies == SeqsUpTo({"1", " ", ".", "u", "<"}, MaxShort) \cup {<<"u", "n", "k", "n", "o", "w", "n">>}

DateInputs ==
    {l \o b \o r : l \in Pads, r \in Pads,
                   b \in SixBodies \cup DelimBodies \cup ShortBodies}

Codes == SeqsUpTo({"F", "R", "A", "f", "r", "<"}, MaxCode)

DefaultRaw ==
    [surname |-> <<"D", "U", "P", "O", "N", "T">>, names |-> <<"M", "A", "R", "I", "E", "<", "A", "N", "N", "E">>, country |-> <<"F", "R", "A">>,
     nationality |-> <<"F", "R", "A">>, number |-> <<"1", "2", "A", "B", "3", "4", "<", "<", "<">>, sex |-> <<"F">>,
     date_of_birth |-> <<"8", "5", "0", "1", "0", "1">>, expiration_date |-> <<"3", "0", "0", "1", "0", "1">>,
     mrz_text |-> <<"I", "D", "F", "R", "A", "D", "U", "P", "O", "N", "T", "<", "<", "M", "A", "R", "I", "E", "<", "A", "N", "N", "E">>]

\* a record whose names repeat the surname and whose fields hold fillers
AltRaw ==
    [surname |-> <<"M", "A", "R", "I", "E">>, names |-> <<"M", "A", "R", "I", "E">>, country |-> <<"D", "<", "<">>,
     nationality |-> <<"D", "<", "<">>, number |-> <<"<", "<", "<", "<", "<", "<", "<", "<", "<">>, sex |-> <<"<">>,
     date_of_birth |-> <<"<", "<", "<", "<", "<", "<">>, expiration_date |-> <<"3", "0", "0", "1", "0", "1">>,
     mrz_text |-> <<"I", "D", "D", "<", "<", "M", "A", "R", "I", "E", "<", "<", "M", "A", "R", "I", "E">>]

NameRecords ==
    {[DefaultRaw EXCEPT !.surname = s, !.names = n] :
        s \in SeqsUpTo({"A", "B", "<"}, MaxName),
        n \in SeqsUpTo({"A", "B", "<"}, MaxName)}

FieldRecords ==
    {[DefaultRaw EXCEPT !.country = c, !.nationality = n, !.sex = s,
                        !.date_of_birth = d, !.expiration_date = e] :
        c \in {<<"F", "R", "A">>, <<"D", "<", "<">>, <<"f", "r", "a">>}, n \in {<<"F", "R", "A">>, <<"D", "<", "<">>},
        s \in {<<"F">>, <<"<">>, <<>>},
        d \in {<<"8", "5", "0", "1", "0", "1">>, <<"<", "<", "<", "<", "<", "<">>, <<"8", "5", "<", "1", "0", "1">>, <<"8", "5", "0", "1">>},
        e \in {<<"3", "0", "0", "1", "0", "1">>, <<"3", "1", "0", "1", "0", "<">>}}

RawRecords == NameRecords \cup FieldRecords \cup {AltRaw}

FrVocab ==
    {<<"T", "a", "i", "l", "l", "e">>, <<"T", "A", "I", "L", "L", "E">>, <<"t", "a", "i", "l", "l", "e">>, <<"T", ".">>, <<":", " ">>, <<"1", ",", "7", "5">>, <<"N", "o", "m">>,
     <<"M", "A", "R", "I", "E">>, <<"S", "e", "x", "e">>, <<"P", "r", "é", "n", "o", "m">>, <<"N", "é", "(", "e", ")", " ", "l", "e">>, <<"0", "1", ".", "0", "2", ".", "1", "9", "9", "0">>,
     <<"N", "a", "t", "i", "o", "n", "a", "l", "i", "t", "é">>, <<"C", "A", "R", "T", "E", " ", "N", "A", "T", "I", "O", "N", "A", "L", "E", " ", "D", "'", "I", "D", "E", "N", "T", "I", "T", "E", " ", "N", "e">>}

EndToEndText ==
    <<"C", "A", "R", "T", "E", " ", "N", "A", "T", "I", "O", "N", "A", "L", "E", " ", "D", "'", "I", "D", "E", "N", "T", "I", "T", "E", " ", "N", "e", ":", " ", "1", "2", "3", "4", "5", "6", "7", "8", "9", "0", "1", "2", " ", "N", "o", "m", ":", " ", "D", "U", "P", "O", "N", "T", " ", "P", "r", "é", "n", "o", "m", ":", " ", "M", "A", "R", "I", "E", " ", "S", "e", "x", "e", ":", " ", "F", " ", "N", "é", "(", "e", ")", " ", "l", "e", ":", " ", "0", "1", ".", "0", "2", ".", "1", "9", "9", "0">>

FrTexts == Texts(FrVocab, MaxSegs) \cup {EndToEndText}

InVocab ==
    {<<"P", "<">>, <<"F", "R", "A">>, <<"<", "<">>, <<"D", "U", "P", "O", "N", "T">>, <<"<", "M", "A", "R", "I", "E">>, <<" ">>, <<"1", "2", "A", "B", "3", "4", "C", "D", "5">>, <<"1", "2", "3", "4", "5", "6", "7">>}

InTexts == Texts(InVocab, MaxSegs + 1)

OcrFailure == Raise("TesseractError")

\* an uploaded image: what pytesseract.image_to_string and read_mrz make of it
FrImages == [ocr : {Value(t) : t \in FrTexts} \cup {OcrFailure}, mrz : {None, DefaultRaw, AltRaw}]

InImages == [ocr : {Value(t) : t \in InTexts} \cup {OcrFailure}, mrz : {None, DefaultRaw, AltRaw}]

\* the outcomes of the look-up of one raw country field
Lookups(mrz, c) == IF mrz = None THEN {[kind |-> "none"]} ELSE CountriesGet(Upper(c))

CountryLookups(mrz) == Lookups(mrz, IF mrz = None THEN <<>> ELSE mrz.country)

NationalityLookups(mrz) == Lookups(mrz, IF mrz = None THEN <<>> ELSE mrz.nationality)

(***************************************************************************)
(* The functions called on their own.                                      *)
(***************************************************************************)
Idle ==
    /\ uploaded_file = None
    /\ ocr_text = <<>>
    /\ mrz_info = EmptyDict
    /\ ocr_info = EmptyDict
    /\ taille = <<>>
    /\ final_info = EmptyDict

InitDate ==
    /\ pc = "call"
    /\ date_str \in DateInputs
    /\ code = <<>>
    /\ raw = None
    /\ result = None
    /\ Idle

FrConvertDate ==
    /\ pc = "call"
    /\ result' = fr_convert_date(date_str)
    /\ pc' = "fr_convert_date"
    /\ UNCHANGED <<date_str, code, raw, uploaded_file, ocr_text, mrz_info, ocr_info,
                   taille, final_info>>

InConvertDate ==
    /\ pc = "call"
    /\ result' = in_convert_date(date_str)
    /\ pc' = "in_convert_date"
    /\ UNCHANGED <<date_str, code, raw, uploaded_file, ocr_text, mrz_info, ocr_info,
                   taille, final_info>>

NextDate == FrConvertDate \/ InConvertDate

SpecDate == InitDate /\ [][NextDate]_vars

InitCountry ==
    /\ pc = "call"
    /\ date_str = <<>>
    /\ code \in Codes
    /\ raw = None
    /\ result = None
    /\ Idle

FrGetCountryFullname ==
    /\ pc = "call"
    /\ \E o \in CountriesGet(Upper(code)) : result' = fr_get_country_fullname(code, o)
    /\ pc' = "fr_get_country_fullname"
    /\ UNCHANGED <<date_str, code, raw, uploaded_file, ocr_text, mrz_info, ocr_info,
                   taille, final_info>>

InGetCountryFullname ==
    /\ pc = "call"
    /\ \E o \in CountriesGet(Upper(code)) : result' = in_get_country_fullname(code, o)
    /\ pc' = "in_get_country_fullname"
    /\ UNCHANGED <<date_str, code, raw, uploaded_file, ocr_text, mrz_info, ocr_info,
                   taille, final_info>>

NextCountry == FrGetCountryFullname \/ InGetCountryFullname

SpecCountry == InitCountry /\ [][NextCountry]_vars

InitMrz ==
    /\ pc = "call"
    /\ date_str = <<>>
    /\ code = <<>>
    /\ raw \in RawRecords \cup {None}
    /\ result = None
    /\ Idle

FrExtractMrzInfo ==
    /\ pc = "call"
    /\ \E oc \in CountryLookups(raw), on \in NationalityLookups(raw) :
           result' = Value(fr_extract_mrz_info(raw, oc, on))
    /\ pc' = "fr_extract_mrz_info"
    /\ UNCHANGED <<date_str, code, raw, uploaded_file, ocr_text, mrz_info, ocr_info,
                   taille, final_info>>

InExtractMrzInfo ==
    /\ pc = "call"
    /\ \E oc \in CountryLookups(raw), on \in NationalityLookups(raw) :
           result' = in_extract_mrz_info(raw, oc, on)
    /\ pc' = "in_extract_mrz_info"
    /\ UNCHANGED <<date_str, code, raw, uploaded_file, ocr_text, mrz_info, ocr_info,
                   taille, final_info>>

NextMrz == FrExtractMrzInfo \/ InExtractMrzInfo

SpecMrz == InitMrz /\ [][NextMrz]_vars

(***************************************************************************)
(* The two scripts, run by Streamlit once a file is uploaded.              *)
(***************************************************************************)
Init ==
    /\ pc = "waiting"
    /\ date_str = <<>>
    /\ code = <<>>
    /\ raw = None
    /\ result = None
    /\ Idle

\* frenchcarte.py: uploaded_file = st.file_uploader(...)
FrUpload ==
    /\ pc = "waiting"
    /\ uploaded_file' \in FrImages
    /\ pc' = "fr_uploaded"
    /\ UNCHANGED <<date_str, code, raw, result, ocr_text, mrz_info, ocr_info, taille,
                   final_info>>

\* ocr_text = pytesseract.image_to_string(image, lang=selected_languages);
\* nothing catches what the call raises
FrOcr ==
    /\ pc = "fr_uploaded"
    /\ IF uploaded_file.ocr.kind = "raise"
       THEN /\ result' = uploaded_file.ocr
            /\ pc' = "fr_crashed"
            /\ UNCHANGED ocr_text
       ELSE /\ ocr_text' = uploaded_file.ocr.val
            /\ pc' = "fr_ocr"
            /\ UNCHANGED result
    /\ UNCHANGED <<date_str, code, raw, uploaded_file, mrz_info, ocr_info, taille,
                   final_info>>

\* mrz_info, ocr_info and taille
FrExtract ==
    /\ pc = "fr_ocr"
    /\ \E oc \in CountryLookups(uploaded_file.mrz),
          on \in NationalityLookups(uploaded_file.mrz) :
           mrz_info' = fr_extract_mrz_info(uploaded_file.mrz, oc, on)
    /\ ocr_info' = extract_info_from_ocr_text(ocr_text)
    /\ taille' = extract_taille(ocr_text)
    /\ pc' = "fr_extracted"
    /\ UNCHANGED <<date_str, code, raw, result, uploaded_file, ocr_text, final_info>>

\* final_info and its display
FrPresent ==
    /\ pc = "fr_extracted"
    /\ final_info' = merge_final_info(mrz_info, ocr_info, taille)
    /\ pc' = "fr_presented"
    /\ UNCHANGED <<date_str, code, raw, result, uploaded_file, ocr_text, mrz_info,
                   ocr_info, taille>>

\* indian_passport.py: uploaded_file = st.file_uploader(...)
InUpload ==
    /\ pc = "waiting"
    /\ uploaded_file' \in InImages
    /\ pc' = "in_uploaded"
    /\ UNCHANGED <<date_str, code, raw, result, ocr_text, mrz_info, ocr_info, taille,
                   final_info>>

\* extracted_info, raw_text = extract_text_info(image); nothing catches what
\* pytesseract.image_to_string raises
InExtractText ==
    /\ pc = "in_uploaded"
    /\ IF uploaded_file.ocr.kind = "raise"
       THEN /\ result' = uploaded_file.ocr
            /\ pc' = "in_crashed"
            /\ UNCHANGED <<ocr_text, ocr_info>>
       ELSE /\ ocr_text' = uploaded_file.ocr.val
            /\ ocr_info' = extract_text_info(uploaded_file.ocr.val)
            /\ pc' = "in_text"
            /\ UNCHANGED result
    /\ UNCHANGED <<date_str, code, raw, uploaded_file, mrz_info, taille, final_info>>

\* mrz_info = extract_mrz_info(uploaded_file)
InExtractMrz ==
    /\ pc = "in_text"
    /\ \E oc \in CountryLookups(uploaded_file.mrz),
          on \in NationalityLookups(uploaded_file.mrz) :
           LET r == in_extract_mrz_info(uploaded_file.mrz, oc, on)
           IN  IF r.kind = "raise"
               THEN result' = r /\ pc' = "in_crashed" /\ UNCHANGED mrz_info
               ELSE mrz_info' = r.val /\ pc' = "in_mrz" /\ UNCHANGED result
    /\ UNCHANGED <<date_str, code, raw, uploaded_file, ocr_text, ocr_info, taille,
                   final_info>>

\* the two field lists and the download button
InPresent ==
    /\ pc = "in_mrz"
    /\ pc' = "in_presented"
    /\ UNCHANGED <<date_str, code, raw, result, uploaded_file, ocr_text, mrz_info,
                   ocr_info, taille, final_info>>

Next ==
    \/ FrUpload
    \/ FrOcr
    \/ FrExtract
    \/ FrPresent
    \/ InUpload
    \/ InExtractText
    \/ InExtractMrz
    \/ InPresent

Spec == Init /\ [][Next]_vars

(***************************************************************************)
(* Properties.                                                             *)
(***************************************************************************)
\* C1: for every string of exactly six decimal digits YYMMDD, both variants
\* of convert_date return DD/MM/YYYY, where DD and MM are the last two and
\* the middle two digits of the input and YYYY is 1900 + YY when YY > 30 and
\* 2000 + YY when YY <= 30.
CenturyRule ==
    (pc \in {"fr_convert_date", "in_convert_date"} /\ IsSixDigits(date_str)) =>
        /\ result.kind = "value"
        /\ Len(result.val) = 10
        /\ SubSeq(result.val, 1, 2) = SubSeq(date_str, 5, 6)
        /\ result.val[3] = "/"
        /\ SubSeq(result.val, 4, 5) = SubSeq(date_str, 3, 4)
        /\ result.val[6] = "/"
        /\ LET YY == 10 * DigitVal(date_str[1]) + DigitVal(date_str[2])
               YYYY == SubSeq(result.val, 7, 10)
           IN  /\ Range(YYYY) \subseteq Digits
               /\ DigitsVal(YYYY) = IF YY > 30 THEN 1900 + YY ELSE 2000 + YY

\* the year 30, the last one of the 2000s, has been converted
CenturyRuleWitness ==
    /\ pc = "fr_convert_date"
    /\ date_str = <<"3", "0", "0", "1", "0", "1">>
    /\ result = Value(<<"0", "1", "/", "0", "1", "/", "2", "0", "3", "0">>)

\* v is s without its leading and trailing whitespace
IsTrimOf(v, s) ==
    \E a \in 1..(Len(s) + 1), b \in 0..Len(s) :
        /\ v = SubSeq(s, a, b)
        /\ \A i \in 1..(a - 1) : s[i] \in Whitespace
        /\ \A i \in (b + 1)..Len(s) : s[i] \in Whitespace
        /\ v # <<>> => (v[1] \notin Whitespace /\ v[Len(v)] \notin Whitespace)

\* C2, as stated: every input of frenchcarte.convert_date that is neither six
\* digits nor a delimited date is returned equal to the input, character for
\* character, leading and trailing whitespace included.
FallbackReturnsInput ==
    (pc = "fr_convert_date" /\ ~IsSixDigits(date_str) /\ ~IsDelimitedDate(date_str))
        => result = Value(date_str)

\* C2, amended: every input of frenchcarte.convert_date that, once its leading
\* and trailing whitespace is removed, is neither six digits nor a delimited
\* date is returned with that whitespace removed (so unchanged when it has
\* none), and the call does not raise.
FallbackReturnsStripped ==
    (/\ pc = "fr_convert_date"
     /\ ~IsSixDigits(Strip(date_str))
     /\ ~IsDelimitedDate(Strip(date_str)))
        => /\ result.kind = "value"
           /\ IsTrimOf(result.val, date_str)
           /\ (date_str = <<>> \/ (date_str[1] \notin Whitespace
                                    /\ date_str[Len(date_str)] \notin Whitespace))
                  => result.val = date_str

\* a padded free-form string has gone through the fallback
FallbackWitness ==
    /\ pc = "fr_convert_date"
    /\ date_str = <<" ", "u", " ">>
    /\ result = Value(<<"u">>)

\* C3: the final FieldSet of frenchcarte.py has exactly the labels of the MRZ
\* FieldSet, of the OCR FieldSet and "Taille"; "Taille" holds the second
\* height pass; every other label holds the OCR value when the OCR FieldSet
\* has it and the MRZ value otherwise; without an MRZ record the final
\* FieldSet equals the OCR FieldSet.
MergeOverlay ==
    pc = "fr_presented" =>
        /\ DOMAIN final_info = DOMAIN mrz_info \cup DOMAIN ocr_info \cup {"Taille"}
        /\ final_info["Taille"] = extract_taille(ocr_text)
        /\ \A L \in DOMAIN final_info \ {"Taille"} :
               final_info[L] = IF L \in DOMAIN ocr_info THEN ocr_info[L] ELSE mrz_info[L]
        /\ uploaded_file.mrz = None =>
               final_info = extract_info_from_ocr_text(ocr_text)

\* the two sources disagree on the surname and the OCR value was kept
MergeOverlayWitness ==
    /\ pc = "fr_presented"
    /\ "Nom de famille" \in DOMAIN mrz_info \cap DOMAIN ocr_info
    /\ mrz_info["Nom de famille"] # ocr_info["Nom de famille"]
    /\ final_info["Nom de famille"] = ocr_info["Nom de famille"]
    /\ "Date d'expiration" \in DOMAIN final_info

\* C4: get_country_fullname, in both variants, returns "<name> (<CODE>)" with
\* the code upper-cased when the upper-cased code is in the reference table,
\* and the code as it was passed when the look-up yields nothing or raises;
\* it never raises.
CountryTotal ==
    pc \in {"fr_get_country_fullname", "in_get_country_fullname"} =>
        /\ result.kind = "value"
        /\ result.val = IF Upper(code) \in Alpha3
                        THEN CountryName(Upper(code)) \o <<" ", "(">> \o Upper(code) \o <<")">>
                        ELSE code

\* an unknown lower-case code came back as it was passed
CountryTotalWitness ==
    /\ pc = "fr_get_country_fullname"
    /\ code = <<"f", "r", "<">>
    /\ result = Value(<<"f", "r", "<">>)

\* C5: whenever the OCR engine call fails, the failure is caught and the run
\* goes on to the presentation step: no unhandled exception ends the script.
OcrFailureNotFatal ==
    (uploaded_file # None /\ uploaded_file.ocr.kind = "raise")
        => pc \notin {"fr_crashed", "in_crashed"}

\* the height label of the claim at position i, matched case-insensitively
\* as the specification asks of every label
HeightLabelEnd(t, i) ==
    IF LitAtI(t, i, <<"T", "a", "i", "l", "l", "e">>) THEN i + 6
    ELSE IF LitAtI(t, i, <<"T", ".">>) THEN i + 2
    ELSE 0

HeightNumberAt(t, i) ==
    IF HeightLabelEnd(t, i) = 0 THEN NoMatch
    ELSE Run(t, SkipSet(t, HeightLabelEnd(t, i), Whitespace \cup {":"}),
             Digits \cup {".", ","})

RECURSIVE HeightNumber(_, _)
HeightNumber(t, i) ==
    IF i > Len(t) THEN NoMatch
    ELSE IF HeightNumberAt(t, i).found THEN HeightNumberAt(t, i)
    ELSE HeightNumber(t, i + 1)

\* C6: "Taille" is a label of the OCR FieldSet and of the final FieldSet; its
\* value is "Non précisé" when the text has no height label followed by a
\* number, and otherwise that number with every ',' replaced by '.'; the
\* final FieldSet is never empty.
HeightAlwaysPresent ==
    pc = "fr_presented" =>
        LET h == HeightNumber(ocr_text, 1)
            expected == IF h.found THEN Replace(h.group, <<",">>, <<".">>)
                        ELSE NonPrecise
        IN  /\ "Taille" \in DOMAIN ocr_info
            /\ "Taille" \in DOMAIN final_info
            /\ final_info # EmptyDict
            /\ ocr_info["Taille"] = expected
            /\ final_info["Taille"] = expected

\* C7: indian_passport.convert_date never raises; an input whose length is
\* not 6, and an input of length 6 that is not six digits, is returned
\* unchanged.
PassportDateNeverRaises ==
    pc = "in_convert_date" =>
        /\ result.kind = "value"
        /\ ~IsSixDigits(date_str) => result.val = date_str

\* C8: in both variants of extract_mrz_info no value of the FieldSet other
\* than the raw MRZ text contains the filler '<'.
NoFillerInFields ==
    (pc \in {"fr_extract_mrz_info", "in_extract_mrz_info"} /\ result.kind = "value") =>
        \A L \in DOMAIN result.val \ {"MRZ brut", "Raw MRZ"} :
            "<" \notin Range(result.val[L])

\* C9: with surname and names the filler-stripped, trimmed, title-cased raw
\* fields, "Prénom" is "Non précisé" when names is empty, names when surname
\* is empty or not a substring of names, and otherwise names with the surname
\* removed and trimmed, or names again when nothing remains; it is never
\* empty.
PrenomDerivation ==
    (pc = "fr_extract_mrz_info" /\ raw # None) =>
        LET surname == CleanName(raw.surname)
            names == CleanName(raw.names)
            prenom == result.val["Prénom"]
            rest == Strip(Replace(names, surname, <<>>))
        IN  /\ names = <<>> => prenom = NonPrecise
            /\ (names # <<>> /\ (surname = <<>> \/ ~Contains(names, surname)))
                   => prenom = names
            /\ (names # <<>> /\ surname # <<>> /\ Contains(names, surname))
                   => prenom = IF rest = <<>> THEN names ELSE rest
            /\ prenom # <<>>

\* names consists of the surname alone: nothing remains, names is kept
PrenomDerivationWitness ==
    /\ pc = "fr_extract_mrz_info"
    /\ raw # None
    /\ raw.surname = <<"A", "B">>
    /\ raw.names = <<"A", "B", "<">>
    /\ result.val["Prénom"] = <<"A", "b">>

\* the labels of the ID-card text, each with a spelling in another case
LabelCases ==
    {<<<<"C", "A", "R", "T", "E", " ", "N", "A", "T", "I", "O", "N", "A", "L", "E", " ", "D", "'", "I", "D", "E", "N", "T", "I", "T", "E">>, Lower(<<"C", "A", "R", "T", "E", " ", "N", "A", "T", "I", "O", "N", "A", "L", "E", " ", "D", "'", "I", "D", "E", "N", "T", "I", "T", "E">>)>>,
     <<<<"N", "a", "t", "i", "o", "n", "a", "l", "i", "t", "é">>, Upper(<<"N", "a", "t", "i", "o", "n", "a", "l", "i", "t", "é">>)>>,
     <<<<"N", "o", "m">>, <<"N", "O", "M">>>>,
     <<<<"P", "r", "é", "n", "o", "m">>, Upper(<<"P", "r", "é", "n", "o", "m">>)>>,
     <<<<"S", "e", "x", "e">>, <<"S", "E", "X", "E">>>>,
     <<<<"N", "é", "(", "e", ")", " ", "l", "e">>, Upper(<<"N", "é", "(", "e", ")", " ", "l", "e">>)>>,
     <<<<"T", "a", "i", "l", "l", "e">>, <<"T", "A", "I", "L", "L", "E">>>>}

\* C10: changing the letter case of a field label in the OCR text changes
\* neither whether the field is matched nor the value extracted.
CaseInsensitiveLabels ==
    pc = "fr_extracted" =>
        \A lc \in LabelCases :
            extract_info_from_ocr_text(Replace(ocr_text, lc[1], lc[2])) = ocr_info

=============================================================================
